---- MODULE Spec2Model ----
(***************************************************************************)
(* Model of the Telnyx call-screening webhook service (src/main.py).       *)
(*                                                                         *)
(* State: the module-level dict active_calls, the sheets_client set up at  *)
(* import time, the wall clock read by datetime.utcnow(), and the daemon   *)
(* end_call threads started by handle_call_answered.  Each HTTP request is *)
(* handled to completion in one step (requests are processed one at a      *)
(* time); every end_call thread advances on its own between requests.      *)
(*                                                                         *)
(* The clock counts quarter seconds, so that a timedelta's total_seconds() *)
(* is an exactly representable float and the "%.1f" formatting of the      *)
(* duration is the round-half-even rounding Python applies to it.          *)
(***************************************************************************)
EXTENDS Integers, Sequences, FiniteSets, TLC

\* ---------------------------------------------------------------- bounds
MaxEvents == 3      \* HTTP requests handled in one behaviour
MaxTime == 2        \* last clock reading (quarter seconds)

\* ---------------------------------------------------------------- values
None == "None"                                \* Python's None
CallIds == {"c1", "c2"}
PayloadIds == CallIds                         \* call_data.get('call_control_id')
FromNumbers == {"+15551234567", None}         \* call_data.get('from')
ToNumbers == {"+14807868280"}                 \* call_data.get('to')
RecordingUrls == {"https://r/1.mp3", None}    \* recording_urls.get('mp3')
EventTypes == {"call.initiated", "call.answered", "call.hangup",
               "call.recording.saved", "call.speak.ended", None}
Recognized == {"call.initiated", "call.answered", "call.hangup",
               "call.recording.saved"}
Workers == {"w1", "w2"}                       \* server threads (app.run is threaded)
Outcomes == {"ok", "error"}                   \* what the remote end does to one call
Raised == "raised"                            \* an exception leaving a function
Returned == "returned"                        \* a handler reaching its return '', 200

VARIABLES
    active_calls,       \* dict call_id -> call info (a function on the keys present)
    sheets_configured,  \* sheets_client and SPREADSHEET_ID are both set
    clock,              \* last value returned by datetime.utcnow()
    threads,            \* the end_call threads started so far
    request,            \* the HTTP request handled by the last request step
    calls_made,         \* collaborator calls made by the last step, in order
    response,           \* the HTTP response of the last request step
    nEvents,            \* number of HTTP requests handled
    lifecycle,          \* per call_id: last of initiated/hangup handled for it
    duplicate,          \* the last request repeats the request before it
    heap,               \* the call info dicts created so far, as objects
    refs,               \* call_id -> the object active_calls holds for it
    workers,            \* server threads handling requests at the same time
    tally               \* per call_id: initiated events handled, 'completed' rows logged

\* the state of the server threads that handle requests concurrently
concVars == <<heap, refs, workers, tally>>

vars == <<active_calls, sheets_configured, clock, threads, request,
          calls_made, response, nEvents, lifecycle, duplicate,
          heap, refs, workers, tally>>

\* ------------------------------------------------------ collaborator shims

\* telnyx_api_request without its try/except: a failed request raises
telnyx_api_request_raising(outcome) ==
    IF outcome = "ok" THEN "json" ELSE Raised

\* telnyx_api_request: every exception is caught and turned into None.
telnyx_api_request(outcome) ==
    IF outcome = "ok" THEN "json" ELSE None

\* log_to_sheet without its try/except: a failed append raises
log_to_sheet_raising(configured, outcome) ==
    IF ~configured THEN "not_configured"
    ELSE IF outcome = "ok" THEN "appended"
    ELSE Raised

\* log_to_sheet: returns without appending when not configured; an
\* exception of the append is caught and logged.
log_to_sheet(configured, outcome) ==
    IF ~configured THEN "not_configured"
    ELSE IF outcome = "ok" THEN "appended"
    ELSE "failed"

\* One call of telnyx_api_request('POST', '/calls/<id>/actions/<action>', data)
Command(action, call_id, result) ==
    [to |-> "telnyx", action |-> action, call_id |-> call_id, result |-> result]

\* One call of log_to_sheet(data)
SheetLog(data, result) ==
    [to |-> "sheet", data |-> data, result |-> result]

\* ------------------------------------------------------------- responses
Ack == [code |-> 200, body |-> "empty"]                 \* return '', 200
ErrorResponse == [code |-> 500, body |-> "error"]       \* jsonify({'error': ...}), 500

InfoResponse(body) == [code |-> 200, body |-> body]     \* return jsonify({...})

\* -------------------------------------------------------- Call Registry

\* StoreCall with the two numbers taken from the wrong payload fields
StoreCall_swapped(calls, call_id, from_number, to_number, now) ==
    [k \in (DOMAIN calls) \cup {call_id} |->
        IF k = call_id
        THEN [from |-> to_number, to |-> from_number,
              start_time |-> now, status |-> "ringing"]
        ELSE calls[k]]

\* active_calls[call_id] = {'from', 'to', 'start_time', 'status': 'ringing'}
StoreCall(calls, call_id, from_number, to_number, now) ==
    [k \in (DOMAIN calls) \cup {call_id} |->
        IF k = call_id
        THEN [from |-> from_number, to |-> to_number,
              start_time |-> now, status |-> "ringing"]
        ELSE calls[k]]

\* MarkAnswered creating a partial record for an unknown call_id
MarkAnswered_creating(calls, call_id, now) ==
    [k \in (DOMAIN calls) \cup {call_id} |->
        IF k = call_id
        THEN ("status" :> "answered" @@ "answered_time" :> now)
             @@ (IF k \in DOMAIN calls THEN calls[k] ELSE <<>>)
        ELSE calls[k]]

\* MarkAnswered stamping the time the call started minus one tick
MarkAnswered_early(calls, call_id, now) ==
    IF call_id \in DOMAIN calls
    THEN [calls EXCEPT ![call_id] =
            ("status" :> "answered"
             @@ "answered_time" :> (calls[call_id]["start_time"] - 1))
            @@ calls[call_id]]
    ELSE calls

\* if call_id in active_calls: status = 'answered'; answered_time = utcnow()
MarkAnswered(calls, call_id, now) ==
    IF call_id \in DOMAIN calls
    THEN [calls EXCEPT ![call_id] =
            ("status" :> "answered" @@ "answered_time" :> now) @@ calls[call_id]]
    ELSE calls

\* call_info['status'] = 'ended'; call_info['end_time'] = utcnow()
MarkEnded(call_info, now) ==
    ("status" :> "ended" @@ "end_time" :> now) @@ call_info

\* RemoveCall forgetting the del
RemoveCall_kept(calls, call_id) ==
    calls

\* del active_calls[call_id]
RemoveCall(calls, call_id) ==
    [k \in (DOMAIN calls) \ {call_id} |-> calls[k]]

\* Duration measured from start_time instead of answered_time
Duration_from_start(call_info) ==
    IF "answered_time" \in DOMAIN call_info
    THEN call_info["end_time"] - call_info["start_time"]
    ELSE 0

\* (end_time - answered_time).total_seconds() if answered, else 0;
\* in clock units (quarter seconds)
Duration(call_info) ==
    IF "answered_time" \in DOMAIN call_info
    THEN call_info["end_time"] - call_info["answered_time"]
    ELSE 0

\* f"{duration:.1f}": the number of tenths of a second printed for a duration
\* of d quarter seconds.  d/4 is exact in binary floating point, so a tie
\* (odd d) goes to the even tenth.
Tenths(d) ==
    LET n == 5 * d
        lo == n \div 2
    IN IF n % 2 = 0 THEN lo
       ELSE IF lo % 2 = 0 THEN lo ELSE lo + 1

\* f"{duration:.1f} seconds"
FormatDuration(d) ==
    [whole |-> Tenths(d) \div 10, tenth |-> Tenths(d) % 10, unit |-> "seconds"]

\* ------------------------------------------------------------- handlers
\* A handler maps the registry and its inputs to the registry it leaves, the
\* collaborator calls it made (in order), the end_call threads it started
\* and how it ended: Returned (return '', 200), or Raised when an exception
\* left it.

Handled(calls, made, started, returned) ==
    [calls |-> calls, made |-> made, started |-> started, returned |-> returned]

handle_incoming_call(calls, call_data, now, configured, outcomes) ==
    LET call_id == call_data.call_control_id
        stored == StoreCall(calls, call_id, call_data.from, call_data.to, now)
        data == [call_id |-> call_id, from |-> call_data.from,
                 to |-> call_data.to, status |-> "incoming"]
        logged == log_to_sheet(configured, outcomes.sheet)
        answer == telnyx_api_request(outcomes.first)
    IN IF logged = Raised
       THEN Handled(stored, <<SheetLog(data, logged)>>, <<>>, Raised)
       ELSE \* an exception of the answer command is caught by the handler
            Handled(stored,
                    <<SheetLog(data, logged), Command("answer", call_id, answer)>>,
                    <<>>, Returned)

\* handle_call_answered giving up after a failed record_start
handle_call_answered_transactional(calls, call_data, now, configured, outcomes) ==
    LET call_id == call_data.call_control_id
        updated == MarkAnswered(calls, call_id, now)
        record_result == telnyx_api_request(outcomes.first)
        speak_result == telnyx_api_request(outcomes.second)
        record == Command("record_start", call_id, record_result)
        speak == Command("speak_greeting", call_id, speak_result)
    IN IF record_result = None
       THEN Handled(updated, <<record>>, <<>>, Returned)
       ELSE Handled(updated, <<record, speak>>, <<call_id>>, Returned)

\* handle_call_answered returning at once for a call_id it does not know
handle_call_answered_known_only(calls, call_data, now, configured, outcomes) ==
    LET call_id == call_data.call_control_id
        updated == MarkAnswered(calls, call_id, now)
        record_result == telnyx_api_request(outcomes.first)
        speak_result == telnyx_api_request(outcomes.second)
        record == Command("record_start", call_id, record_result)
        speak == Command("speak_greeting", call_id, speak_result)
    IN IF call_id \notin DOMAIN calls
       THEN Handled(calls, <<>>, <<>>, Returned)
       ELSE Handled(updated, <<record, speak>>, <<call_id>>, Returned)

handle_call_answered(calls, call_data, now, configured, outcomes) ==
    LET call_id == call_data.call_control_id
        updated == MarkAnswered(calls, call_id, now)
        record_result == telnyx_api_request(outcomes.first)
        speak_result == telnyx_api_request(outcomes.second)
        record == Command("record_start", call_id, record_result)
        speak == Command("speak_greeting", call_id, speak_result)
    IN \* the try block ends at the first exception; the handler still returns
       IF record_result = Raised
       THEN Handled(updated, <<record>>, <<>>, Returned)
       ELSE IF speak_result = Raised
       THEN Handled(updated, <<record, speak>>, <<>>, Returned)
       ELSE Handled(updated, <<record, speak>>, <<call_id>>, Returned)

\* handle_call_hangup without the membership test: the lookup of an unknown
\* call_id raises KeyError
handle_call_hangup_unguarded(calls, call_data, now, configured, outcomes) ==
    LET call_id == call_data.call_control_id
    IN IF call_id \in DOMAIN calls
       THEN LET call_info == MarkEnded(calls[call_id], now)
                data == [call_id |-> call_id, from |-> call_info["from"],
                         to |-> call_info["to"], status |-> "completed",
                         duration |-> FormatDuration(Duration(call_info)),
                         result |-> "recorded"]
                logged == log_to_sheet(configured, outcomes.sheet)
            IN Handled(RemoveCall(calls, call_id),
                       <<SheetLog(data, logged)>>, <<>>, Returned)
       ELSE Handled(calls, <<>>, <<>>, Raised)

\* handle_call_hangup keeping the record until its row is in the sheet
handle_call_hangup_log_gated(calls, call_data, now, configured, outcomes) ==
    LET call_id == call_data.call_control_id
    IN IF call_id \in DOMAIN calls
       THEN LET call_info == MarkEnded(calls[call_id], now)
                data == [call_id |-> call_id, from |-> call_info["from"],
                         to |-> call_info["to"], status |-> "completed",
                         duration |-> FormatDuration(Duration(call_info)),
                         result |-> "recorded"]
                logged == log_to_sheet(configured, outcomes.sheet)
            IN IF logged = "appended"
               THEN Handled(RemoveCall(calls, call_id),
                            <<SheetLog(data, logged)>>, <<>>, Returned)
               ELSE Handled([calls EXCEPT ![call_id] = call_info],
                            <<SheetLog(data, logged)>>, <<>>, Returned)
       ELSE Handled(calls, <<>>, <<>>, Returned)

handle_call_hangup(calls, call_data, now, configured, outcomes) ==
    LET call_id == call_data.call_control_id
    IN IF call_id \in DOMAIN calls
       THEN LET call_info == MarkEnded(calls[call_id], now)
                data == [call_id |-> call_id, from |-> call_info["from"],
                         to |-> call_info["to"], status |-> "completed",
                         duration |-> FormatDuration(Duration(call_info)),
                         result |-> "recorded"]
                logged == log_to_sheet(configured, outcomes.sheet)
            IN IF logged = Raised
               THEN \* call_info is the stored dict: the record stays, ended
                    Handled([calls EXCEPT ![call_id] = call_info],
                            <<SheetLog(data, logged)>>, <<>>, Raised)
               ELSE Handled(RemoveCall(calls, call_id),
                            <<SheetLog(data, logged)>>, <<>>, Returned)
       ELSE Handled(calls, <<>>, <<>>, Returned)

handle_recording_saved(calls, call_data, now, configured, outcomes) ==
    LET call_id == call_data.call_control_id
        data == [call_id |-> call_id, status |-> "recording_saved",
                 transcription |-> <<"Recording URL: ", call_data.recording_url>>]
        logged == log_to_sheet(configured, outcomes.sheet)
    IN Handled(calls, <<SheetLog(data, logged)>>, <<>>,
               IF logged = Raised THEN Raised ELSE Returned)

\* Dispatch with the recording handler as the final else branch
Dispatch_fallthrough(event_type) ==
    CASE event_type = "call.initiated" -> "handle_incoming_call"
      [] event_type = "call.answered" -> "handle_call_answered"
      [] event_type = "call.hangup" -> "handle_call_hangup"
      [] OTHER -> "handle_recording_saved"

\* The if/elif chain of handle_telnyx_webhook on event_type
Dispatch(event_type) ==
    CASE event_type = "call.initiated" -> "handle_incoming_call"
      [] event_type = "call.answered" -> "handle_call_answered"
      [] event_type = "call.hangup" -> "handle_call_hangup"
      [] event_type = "call.recording.saved" -> "handle_recording_saved"
      [] OTHER -> "unhandled"

\* What a request leaves behind: the registry, the collaborator calls made,
\* the threads started and the HTTP response
Served(calls, made, started, resp) ==
    [calls |-> calls, made |-> made, started |-> started, response |-> resp]

\* /webhooks/telnyx
handle_telnyx_webhook(calls, req, now, configured, outcomes) ==
    IF req.method = "GET"
    THEN Served(calls, <<>>, <<>>, InfoResponse("webhook endpoint ready"))
    ELSE IF ~req.json
    THEN \* request.get_json() or webhook_data.get raises
         Served(calls, <<>>, <<>>, ErrorResponse)
    ELSE LET target == Dispatch(req.event_type)
             h == CASE target = "handle_incoming_call" ->
                         handle_incoming_call(calls, req.payload, now, configured, outcomes)
                    [] target = "handle_call_answered" ->
                         handle_call_answered(calls, req.payload, now, configured, outcomes)
                    [] target = "handle_call_hangup" ->
                         handle_call_hangup(calls, req.payload, now, configured, outcomes)
                    [] target = "handle_recording_saved" ->
                         handle_recording_saved(calls, req.payload, now, configured, outcomes)
                    [] OTHER -> Handled(calls, <<>>, <<>>, Returned)
         IN \* except Exception: return jsonify({'error': str(e)}), 500
            Served(h.calls, h.made, h.started,
                   IF h.returned = Raised THEN ErrorResponse ELSE Ack)

\* ------------------------------------------------------------- requests
Payload(call_id, from_number, to_number, url) ==
    [call_control_id |-> call_id, from |-> from_number, to |-> to_number,
     recording_url |-> url]

Post(event_type, payload) ==
    [method |-> "POST", path |-> "/webhooks/telnyx", json |-> TRUE,
     event_type |-> event_type, payload |-> payload]

\* a body that does not decode to an event envelope
MalformedPost ==
    [method |-> "POST", path |-> "/webhooks/telnyx", json |-> FALSE,
     event_type |-> None, payload |-> Payload(None, None, None, None)]

Get(path) ==
    [method |-> "GET", path |-> path, json |-> FALSE,
     event_type |-> None, payload |-> Payload(None, None, None, None)]

OutcomeSets == [sheet : Outcomes, first : Outcomes, second : Outcomes]
NoFailure == [sheet |-> "ok", first |-> "ok", second |-> "ok"]

\* an end_call thread just started for call_id: it sleeps 30 seconds first
Thread(call_id) == [call_id |-> call_id, pc |-> "sleep30"]

RECURSIVE StartAll(_)
StartAll(ids) ==
    IF ids = <<>> THEN <<>> ELSE <<Thread(Head(ids))>> \o StartAll(Tail(ids))

\* the last initiated/hangup event handled for each call_id
Noted(req, resp) ==
    IF resp.code = 200 /\ req.method = "POST" /\ req.json
       /\ req.event_type \in {"call.initiated", "call.hangup"}
    THEN [lifecycle EXCEPT ![req.payload.call_control_id] = req.event_type]
    ELSE lifecycle

\* One request to /webhooks/telnyx handled to completion; now is what
\* datetime.utcnow() returns to the handlers that read it
Serve(req, now, outcomes) ==
    LET s == handle_telnyx_webhook(active_calls, req, now, sheets_configured, outcomes)
    IN /\ nEvents < MaxEvents
       /\ active_calls' = s.calls
       /\ calls_made' = s.made
       /\ threads' = threads \o StartAll(s.started)
       /\ response' = s.response
       /\ request' = req
       /\ clock' = now
       /\ nEvents' = nEvents + 1
       /\ lifecycle' = Noted(req, s.response)
       /\ duplicate' = (req = request)
       /\ UNCHANGED <<sheets_configured, concVars>>

\* utcnow() does not go backwards
Times == clock..MaxTime

CallInitiated ==
    \E id \in PayloadIds, f \in FromNumbers, t \in ToNumbers, now \in Times,
       so \in Outcomes, o1 \in Outcomes :
        Serve(Post("call.initiated", Payload(id, f, t, None)), now,
              [NoFailure EXCEPT !.sheet = so, !.first = o1])

CallAnswered ==
    \E id \in PayloadIds, now \in Times, o1 \in Outcomes, o2 \in Outcomes :
        Serve(Post("call.answered", Payload(id, None, None, None)), now,
              [NoFailure EXCEPT !.first = o1, !.second = o2])

CallHangup ==
    \E id \in PayloadIds, now \in Times, so \in Outcomes :
        Serve(Post("call.hangup", Payload(id, None, None, None)), now,
              [NoFailure EXCEPT !.sheet = so])

RecordingSaved ==
    \E id \in PayloadIds, url \in RecordingUrls, so \in Outcomes :
        Serve(Post("call.recording.saved", Payload(id, None, None, url)), clock,
              [NoFailure EXCEPT !.sheet = so])

UnhandledEvent ==
    \E et \in EventTypes \ Recognized, id \in PayloadIds :
        Serve(Post(et, Payload(id, None, None, None)), clock, NoFailure)

MalformedEvent ==
    Serve(MalformedPost, clock, NoFailure)

WebhookGet ==
    Serve(Get("/webhooks/telnyx"), clock, NoFailure)

\* GET /health
Health ==
    /\ nEvents < MaxEvents
    /\ request' = Get("/health")
    /\ response' = [code |-> 200, body |-> "healthy",
                    active_calls |-> Cardinality(DOMAIN active_calls),
                    sheets_connected |-> sheets_configured]
    /\ calls_made' = <<>>
    /\ nEvents' = nEvents + 1
    /\ duplicate' = FALSE
    /\ UNCHANGED <<active_calls, sheets_configured, clock, threads, lifecycle,
                   concVars>>

\* ------------------------------------------------------ end_call threads
\* time.sleep(30) is over: speak the closing message, then sleep 5 seconds
EndCallSpeak ==
    \E i \in DOMAIN threads, o \in Outcomes :
        /\ threads[i].pc = "sleep30"
        /\ LET result == telnyx_api_request(o)
               cmd == Command("speak_closing", threads[i].call_id, result)
           IN /\ threads' = [threads EXCEPT
                    ![i].pc = IF result = Raised THEN "done" ELSE "sleep5"]
              /\ calls_made' = <<cmd>>
        /\ UNCHANGED <<active_calls, sheets_configured, clock, request,
                       response, nEvents, lifecycle, duplicate, concVars>>

\* EndCallHangup cleaning the registry up after its hangup command
EndCallHangup_removing ==
    \E i \in DOMAIN threads, o \in Outcomes :
        /\ threads[i].pc = "sleep5"
        /\ LET result == telnyx_api_request(o)
               cmd == Command("hangup", threads[i].call_id, result)
           IN /\ threads' = [threads EXCEPT ![i].pc = "done"]
              /\ calls_made' = <<cmd>>
        /\ active_calls' = RemoveCall(active_calls, threads[i].call_id)
        /\ UNCHANGED <<sheets_configured, clock, request,
                       response, nEvents, lifecycle, duplicate, concVars>>

\* time.sleep(5) is over: hang up
EndCallHangup ==
    \E i \in DOMAIN threads, o \in Outcomes :
        /\ threads[i].pc = "sleep5"
        /\ LET result == telnyx_api_request(o)
               cmd == Command("hangup", threads[i].call_id, result)
           IN /\ threads' = [threads EXCEPT ![i].pc = "done"]
              /\ calls_made' = <<cmd>>
        /\ UNCHANGED <<active_calls, sheets_configured, clock, request,
                       response, nEvents, lifecycle, duplicate, concVars>>

\* ------------------------------------------- requests handled in parallel
\* A server thread between two requests
Pending == [code |-> 0, body |-> "pending"]
Idle ==
    [pc |-> "idle", event_type |-> None, call_id |-> None, from |-> None,
     to |-> None, call_info |-> 0, made |-> <<>>, response |-> Pending]

\* active_calls as the threads see it: each key with the object it holds
View(h, r) == [k \in DOMAIN r |-> h[r[k]]]

\* What every step of a server thread leaves alone
ConcFrame ==
    UNCHANGED <<sheets_configured, request, calls_made, response, lifecycle,
                duplicate>>

\* The first statement of the handler an event type is dispatched to
EntryPoint(event_type) ==
    CASE Dispatch(event_type) = "handle_incoming_call" -> "incoming_store"
      [] Dispatch(event_type) = "handle_call_answered" -> "answered_check"
      [] Dispatch(event_type) = "handle_call_hangup" -> "hangup_check"

\* The thread leaves its handler with '', 200 after the calls in made
Return(w, made) ==
    [workers EXCEPT ![w].pc = "done", ![w].made = made, ![w].response = Ack]

\* An exception (KeyError) leaves the handler: handle_telnyx_webhook
\* answers 500
Raise(w) ==
    [workers EXCEPT ![w].pc = "done", ![w].response = ErrorResponse]

\* A free server thread takes the next webhook request
Accept ==
    \E w \in Workers, id \in PayloadIds, f \in FromNumbers, t \in ToNumbers,
       et \in {"call.initiated", "call.answered", "call.hangup"} :
        /\ workers[w].pc \in {"idle", "done"}
        /\ nEvents < MaxEvents
        /\ nEvents' = nEvents + 1
        /\ workers' = [workers EXCEPT ![w] =
              [Idle EXCEPT !.pc = EntryPoint(et), !.event_type = et,
                           !.call_id = id,
                           !.from = IF et = "call.initiated" THEN f ELSE None,
                           !.to = IF et = "call.initiated" THEN t ELSE None]]
        /\ UNCHANGED <<active_calls, clock, threads, heap, refs, tally>>
        /\ ConcFrame

\* active_calls[call_id] = {...}: a new dict replaces whatever the key held
IncomingStore ==
    \E w \in Workers, now \in Times :
        /\ workers[w].pc = "incoming_store"
        /\ LET id == workers[w].call_id
               stored == StoreCall(active_calls, id, workers[w].from,
                                   workers[w].to, now)
           IN /\ heap' = Append(heap, stored[id])
              /\ refs' = [k \in (DOMAIN refs) \cup {id} |->
                            IF k = id THEN Len(heap) + 1 ELSE refs[k]]
              /\ tally' = [tally EXCEPT ![id].initiated = @ + 1]
        /\ active_calls' = View(heap', refs')
        /\ clock' = now
        /\ workers' = [workers EXCEPT ![w].pc = "incoming_finish"]
        /\ UNCHANGED <<threads, nEvents>>
        /\ ConcFrame

\* log_to_sheet('incoming'), the answer command, return
IncomingFinish ==
    \E w \in Workers, so \in Outcomes, o1 \in Outcomes :
        /\ workers[w].pc = "incoming_finish"
        /\ LET id == workers[w].call_id
               data == [call_id |-> id, from |-> workers[w].from,
                        to |-> workers[w].to, status |-> "incoming"]
           IN workers' = Return(w,
                 <<SheetLog(data, log_to_sheet(sheets_configured, so)),
                   Command("answer", id, telnyx_api_request(o1))>>)
        /\ UNCHANGED <<active_calls, clock, threads, nEvents, heap, refs, tally>>
        /\ ConcFrame

\* if call_id in active_calls:
AnsweredCheck ==
    \E w \in Workers :
        /\ workers[w].pc = "answered_check"
        /\ workers' = [workers EXCEPT ![w].pc =
              IF workers[w].call_id \in DOMAIN refs
              THEN "answered_set_status" ELSE "answered_commands"]
        /\ UNCHANGED <<active_calls, clock, threads, nEvents, heap, refs, tally>>
        /\ ConcFrame

\* active_calls[call_id]['status'] = 'answered'
AnsweredSetStatus ==
    \E w \in Workers :
        /\ workers[w].pc = "answered_set_status"
        /\ LET id == workers[w].call_id
           IN IF id \in DOMAIN refs
              THEN /\ heap' = [heap EXCEPT ![refs[id]] =
                                  ("status" :> "answered") @@ @]
                   /\ workers' = [workers EXCEPT ![w].pc = "answered_set_time"]
              ELSE /\ heap' = heap
                   /\ workers' = Raise(w)
        /\ active_calls' = View(heap', refs)
        /\ UNCHANGED <<clock, threads, nEvents, refs, tally>>
        /\ ConcFrame

\* active_calls[call_id]['answered_time'] = datetime.datetime.utcnow()
AnsweredSetTime ==
    \E w \in Workers, now \in Times :
        /\ workers[w].pc = "answered_set_time"
        /\ LET id == workers[w].call_id
           IN IF id \in DOMAIN refs
              THEN /\ heap' = [heap EXCEPT ![refs[id]] =
                                  ("answered_time" :> now) @@ @]
                   /\ workers' = [workers EXCEPT ![w].pc = "answered_commands"]
              ELSE /\ heap' = heap
                   /\ workers' = Raise(w)
        /\ active_calls' = View(heap', refs)
        /\ clock' = now
        /\ UNCHANGED <<threads, nEvents, refs, tally>>
        /\ ConcFrame

\* record_start, speak, threading.Thread(target=end_call).start(), return
AnsweredCommands ==
    \E w \in Workers, o1 \in Outcomes, o2 \in Outcomes :
        /\ workers[w].pc = "answered_commands"
        /\ LET id == workers[w].call_id
           IN /\ workers' = Return(w,
                    <<Command("record_start", id, telnyx_api_request(o1)),
                      Command("speak_greeting", id, telnyx_api_request(o2))>>)
              /\ threads' = Append(threads, Thread(id))
        /\ UNCHANGED <<active_calls, clock, nEvents, heap, refs, tally>>
        /\ ConcFrame

\* if call_id in active_calls: ... else return
HangupCheck ==
    \E w \in Workers :
        /\ workers[w].pc = "hangup_check"
        /\ workers' = IF workers[w].call_id \in DOMAIN refs
                      THEN [workers EXCEPT ![w].pc = "hangup_get"]
                      ELSE Return(w, <<>>)
        /\ UNCHANGED <<active_calls, clock, threads, nEvents, heap, refs, tally>>
        /\ ConcFrame

\* call_info = active_calls[call_id]
HangupGet ==
    \E w \in Workers :
        /\ workers[w].pc = "hangup_get"
        /\ workers' = IF workers[w].call_id \in DOMAIN refs
                      THEN [workers EXCEPT ![w].pc = "hangup_mark_status",
                               ![w].call_info = refs[workers[w].call_id]]
                      ELSE Raise(w)
        /\ UNCHANGED <<active_calls, clock, threads, nEvents, heap, refs, tally>>
        /\ ConcFrame

\* call_info['status'] = 'ended'
HangupMarkStatus ==
    \E w \in Workers :
        /\ workers[w].pc = "hangup_mark_status"
        /\ heap' = [heap EXCEPT ![workers[w].call_info] =
                       ("status" :> "ended") @@ @]
        /\ active_calls' = View(heap', refs)
        /\ workers' = [workers EXCEPT ![w].pc = "hangup_mark_end"]
        /\ UNCHANGED <<clock, threads, nEvents, refs, tally>>
        /\ ConcFrame

\* call_info['end_time'] = datetime.datetime.utcnow()
HangupMarkEnd ==
    \E w \in Workers, now \in Times :
        /\ workers[w].pc = "hangup_mark_end"
        /\ heap' = [heap EXCEPT ![workers[w].call_info] =
                       ("end_time" :> now) @@ @]
        /\ active_calls' = View(heap', refs)
        /\ clock' = now
        /\ workers' = [workers EXCEPT ![w].pc = "hangup_log"]
        /\ UNCHANGED <<threads, nEvents, refs, tally>>
        /\ ConcFrame

\* the duration and log_to_sheet('completed')
HangupLog ==
    \E w \in Workers, so \in Outcomes :
        /\ workers[w].pc = "hangup_log"
        /\ LET id == workers[w].call_id
               call_info == heap[workers[w].call_info]
               data == [call_id |-> id, from |-> call_info["from"],
                        to |-> call_info["to"], status |-> "completed",
                        duration |-> FormatDuration(Duration(call_info)),
                        result |-> "recorded"]
               result == log_to_sheet(sheets_configured, so)
           IN /\ workers' = [workers EXCEPT ![w].pc = "hangup_del",
                    ![w].made = <<SheetLog(data, result)>>]
              /\ tally' = [tally EXCEPT ![id].completed =
                              IF result = "appended" THEN @ + 1 ELSE @]
        /\ UNCHANGED <<active_calls, clock, threads, nEvents, heap, refs>>
        /\ ConcFrame

\* del active_calls[call_id], return
HangupDel ==
    \E w \in Workers :
        /\ workers[w].pc = "hangup_del"
        /\ LET id == workers[w].call_id
           IN IF id \in DOMAIN refs
              THEN /\ refs' = [k \in (DOMAIN refs) \ {id} |-> refs[k]]
                   /\ workers' = Return(w, workers[w].made)
              ELSE /\ refs' = refs
                   /\ workers' = Raise(w)
        /\ active_calls' = View(heap, refs')
        /\ UNCHANGED <<clock, threads, nEvents, heap, tally>>
        /\ ConcFrame

ConcNext ==
    \/ Accept
    \/ IncomingStore
    \/ IncomingFinish
    \/ AnsweredCheck
    \/ AnsweredSetStatus
    \/ AnsweredSetTime
    \/ AnsweredCommands
    \/ HangupCheck
    \/ HangupGet
    \/ HangupMarkStatus
    \/ HangupMarkEnd
    \/ HangupLog
    \/ HangupDel


\* ------------------------------------------------------- specification
Init ==
    /\ active_calls = <<>>
    /\ sheets_configured \in BOOLEAN
    /\ clock = 0
    /\ threads = <<>>
    /\ request = Get("/")
    /\ calls_made = <<>>
    /\ response = InfoResponse("running")
    /\ nEvents = 0
    /\ lifecycle = [id \in PayloadIds |-> None]
    /\ duplicate = FALSE
    /\ heap = <<>>
    /\ refs = <<>>
    /\ workers = [w \in Workers |-> Idle]
    /\ tally = [id \in PayloadIds |-> [initiated |-> 0, completed |-> 0]]

Next ==
    \/ CallInitiated
    \/ CallAnswered
    \/ CallHangup
    \/ RecordingSaved
    \/ UnhandledEvent
    \/ MalformedEvent
    \/ WebhookGet
    \/ Health
    \/ EndCallSpeak
    \/ EndCallHangup

\* The requests that start a thread or touch the registry, and the threads
ThreadNext ==
    \/ CallInitiated
    \/ CallAnswered
    \/ CallHangup
    \/ EndCallSpeak
    \/ EndCallHangup

\* Every started end_call thread is scheduled: its sleeps end and its
\* requests return.
FairSpec ==
    Init /\ [][ThreadNext]_vars /\ WF_vars(EndCallSpeak) /\ WF_vars(EndCallHangup)

Spec == Init /\ [][Next]_vars

\* Requests handled by two server threads at once, statement by statement
ConcSpec == Init /\ [][ConcNext]_vars

\* ============================================================ properties

\* The last step handled a decoded webhook event of type et
Handling(et) ==
    /\ nEvents' = nEvents + 1
    /\ request'.method = "POST"
    /\ request'.json
    /\ request'.event_type = et

\* The call_id of the event handled by the last step
EventId == request'.payload.call_control_id

\* The webhook event held in request is a decoded event of type et
LastEventWas(et) ==
    /\ request.method = "POST"
    /\ request.json
    /\ request.event_type = et

Rank(status) ==
    CASE status = "ringing" -> 1
      [] status = "answered" -> 2
      [] status = "ended" -> 3

\* C1: no step takes the status of the record stored under a call_id from a
\* later status back to an earlier one (ringing < answered < ended).
StatusNeverRegresses ==
    [][\A c \in (DOMAIN active_calls) \cap (DOMAIN active_calls') :
          Rank(active_calls'[c]["status"]) >= Rank(active_calls[c]["status"])]_vars

\* C2: a call_id is a key of active_calls exactly when the last initiated or
\* hangup event handled for it is an initiated event, and /health reports
\* the number of such call_ids.
RegistryKeysAreOpenCalls ==
    /\ DOMAIN active_calls = {c \in PayloadIds : lifecycle[c] = "call.initiated"}
    /\ request.path = "/health" =>
          response.active_calls =
              Cardinality({c \in PayloadIds : lifecycle[c] = "call.initiated"})

\* an answered event handled for a call_id whose hangup came before it
AnsweredAfterHangupSeen ==
    /\ LastEventWas("call.answered")
    /\ lifecycle[request.payload.call_control_id] = "call.hangup"
    /\ request.payload.call_control_id \notin DOMAIN active_calls
    /\ threads # <<>>

\* C3: right after an initiated event is handled, active_calls holds under
\* its call_id a ringing record with the payload's from and to, every other
\* key is as before, and the handler made one 'incoming' sheet log and then
\* one answer command, both for that call_id.
InitiatedStoresRingingRecord ==
    [][Handling("call.initiated") =>
          /\ DOMAIN active_calls' = (DOMAIN active_calls) \cup {EventId}
          /\ active_calls'[EventId]["status"] = "ringing"
          /\ active_calls'[EventId]["from"] = request'.payload.from
          /\ active_calls'[EventId]["to"] = request'.payload.to
          /\ \A c \in (DOMAIN active_calls) \ {EventId} :
                active_calls'[c] = active_calls[c]
          /\ Len(calls_made') = 2
          /\ calls_made'[1].to = "sheet"
          /\ calls_made'[1].data.status = "incoming"
          /\ calls_made'[1].data.call_id = EventId
          /\ calls_made'[2].to = "telnyx"
          /\ calls_made'[2].action = "answer"
          /\ calls_made'[2].call_id = EventId]_vars

\* a repeated initiated delivery has been handled, the answer command issued
InitiatedSeen ==
    /\ LastEventWas("call.initiated")
    /\ duplicate
    /\ Len(calls_made) = 2
    /\ calls_made[2].action = "answer"
    /\ request.payload.call_control_id \in DOMAIN active_calls
    /\ active_calls[request.payload.call_control_id]["status"] = "ringing"
    /\ active_calls[request.payload.call_control_id]["from"] = "+15551234567"

\* C4: an answered event handled while its call_id is in active_calls leaves
\* the record answered with answered_time >= start_time, and a stamped
\* answered_time never decreases.
AnsweredStampsLaterTime ==
    [][/\ (Handling("call.answered") /\ EventId \in DOMAIN active_calls) =>
             /\ EventId \in DOMAIN active_calls'
             /\ active_calls'[EventId]["status"] = "answered"
             /\ "answered_time" \in DOMAIN active_calls'[EventId]
             /\ active_calls'[EventId]["answered_time"]
                   >= active_calls'[EventId]["start_time"]
       /\ \A c \in (DOMAIN active_calls) \cap (DOMAIN active_calls') :
             ("answered_time" \in DOMAIN active_calls[c]
                 /\ "answered_time" \in DOMAIN active_calls'[c]) =>
             active_calls'[c]["answered_time"] >= active_calls[c]["answered_time"]]_vars

\* a call answered some time after it started
AnsweredLaterSeen ==
    /\ LastEventWas("call.answered")
    /\ request.payload.call_control_id \in DOMAIN active_calls
    /\ active_calls[request.payload.call_control_id]["status"] = "answered"
    /\ active_calls[request.payload.call_control_id]["answered_time"]
          > active_calls[request.payload.call_control_id]["start_time"]

\* C5: once the record under a call_id carries an answered_time, no step
\* writes a different value to it.
AnsweredTimeWrittenOnce ==
    [][\A c \in (DOMAIN active_calls) \cap (DOMAIN active_calls') :
          ("answered_time" \in DOMAIN active_calls[c]
              /\ "answered_time" \in DOMAIN active_calls'[c]) =>
          active_calls'[c]["answered_time"] = active_calls[c]["answered_time"]]_vars

\* C6: a hangup event leaves its call_id out of active_calls, touches no
\* other key and is acknowledged with 200; a hangup that repeats the
\* request before it changes nothing in active_calls and makes no
\* collaborator call.
HangupIsIdempotent ==
    [][Handling("call.hangup") =>
          /\ EventId \notin DOMAIN active_calls'
          /\ DOMAIN active_calls' = (DOMAIN active_calls) \ {EventId}
          /\ \A c \in DOMAIN active_calls' : active_calls'[c] = active_calls[c]
          /\ response' = Ack
          /\ duplicate' =>
                /\ response = Ack
                /\ active_calls' = active_calls
                /\ calls_made' = <<>>
                /\ threads' = threads]_vars

\* the second of two hangup deliveries in a row has been acknowledged
SecondHangupSeen ==
    /\ LastEventWas("call.hangup")
    /\ duplicate
    /\ response = Ack
    /\ lifecycle["c1"] = "call.hangup"
    /\ request.payload.call_control_id = "c1"
    /\ "c1" \notin DOMAIN active_calls

\* The duration string of a sheet row, in tenths of a second
ReportedTenths(row) == 10 * row.duration.whole + row.duration.tenth

\* The hangup step found an answered (resp. never answered) record
HangupOfAnswered ==
    /\ Handling("call.hangup")
    /\ EventId \in DOMAIN active_calls
    /\ "answered_time" \in DOMAIN active_calls[EventId]

HangupOfUnanswered ==
    /\ Handling("call.hangup")
    /\ EventId \in DOMAIN active_calls
    /\ "answered_time" \notin DOMAIN active_calls[EventId]

UnknownEventHasNoEffect ==
    [][(/\ nEvents' = nEvents + 1
        /\ request'.method = "POST"
        /\ request'.json
        /\ request'.event_type \notin Recognized) =>
          /\ active_calls' = active_calls
          /\ calls_made' = <<>>
          /\ threads' = threads
          /\ response' = Ack]_vars

\* an unhandled event type was acknowledged while a call was in the registry
UnknownEventSeen ==
    /\ request.method = "POST"
    /\ request.json
    /\ request.event_type = "call.speak.ended"
    /\ response = Ack
    /\ calls_made = <<>>
    /\ active_calls # <<>>

\* C9: a hangup event for a call_id that is not in active_calls raises
\* nothing (it is acknowledged with 200), leaves active_calls unchanged and
\* makes no collaborator call.
GhostHangupHasNoEffect ==
    [][(Handling("call.hangup") /\ EventId \notin DOMAIN active_calls) =>
          /\ response' = Ack
          /\ active_calls' = active_calls
          /\ calls_made' = <<>>
          /\ threads' = threads]_vars

\* a hangup for a call_id never seen, handled while another call is open
GhostHangupSeen ==
    /\ LastEventWas("call.hangup")
    /\ lifecycle[request.payload.call_control_id] = "call.hangup"
    /\ response = Ack
    /\ calls_made = <<>>
    /\ active_calls # <<>>
    /\ ~duplicate
    /\ nEvents = 2

\* The collaborator calls a handler makes when nothing goes wrong
ExpectedCalls(et, known) ==
    CASE et = "call.initiated" -> <<"sheet", "answer">>
      [] et = "call.answered" -> <<"record_start", "speak_greeting">>
      [] et = "call.hangup" -> IF known THEN <<"sheet">> ELSE <<>>
      [] et = "call.recording.saved" -> <<"sheet">>

CallName(call) == IF call.to = "sheet" THEN "sheet" ELSE call.action

\* C10: whatever the outcome of each command and sheet log (the sheet being
\* unconfigured included), the handler of a handled event type makes all
\* its collaborator calls in order, an answered event starts its end_call
\* thread, a hangup removes its record, and the response is the 200
\* acknowledgment.
CollaboratorFailureStillAcknowledged ==
    [][\A et \in Recognized :
          Handling(et) =>
             LET expected == ExpectedCalls(et, EventId \in DOMAIN active_calls)
             IN /\ response' = Ack
                /\ Len(calls_made') = Len(expected)
                /\ \A i \in 1..Len(expected) :
                      CallName(calls_made'[i]) = expected[i]
                /\ et = "call.answered" =>
                      /\ Len(threads') = Len(threads) + 1
                      /\ threads'[Len(threads')] = Thread(EventId)
                /\ et = "call.hangup" => EventId \notin DOMAIN active_calls'
                /\ et = "call.initiated" => EventId \in DOMAIN active_calls']_vars

\* an initiated event acknowledged although the sheet append failed and,
\* after it, the answer command failed too
FailedCollaboratorsSeen ==
    /\ LastEventWas("call.initiated")
    /\ response = Ack
    /\ Len(calls_made) = 2
    /\ calls_made[1].result = "failed"
    /\ calls_made[2].result = None

\* C11: a request whose body does not decode, or a handled event type whose
\* payload lacks call_control_id (or from/to, for an initiated event), gets
\* the 500 error response and leaves active_calls unchanged.
MalformedEventRejected ==
    [][(/\ nEvents' = nEvents + 1
        /\ request'.method = "POST"
        /\ \/ ~request'.json
           \/ /\ request'.event_type \in Recognized
              /\ request'.payload.call_control_id = None
           \/ /\ request'.event_type = "call.initiated"
              /\ None \in {request'.payload.from, request'.payload.to}) =>
          /\ response' = ErrorResponse
          /\ active_calls' = active_calls]_vars

\* C12: the answered handler issues record_start and then speak_greeting for
\* its call_id and starts one end_call thread for it, whatever the result of
\* either command.
AnsweredIssuesBothAndSpawns ==
    [][Handling("call.answered") =>
          /\ Len(calls_made') = 2
          /\ calls_made'[1].action = "record_start"
          /\ calls_made'[1].call_id = EventId
          /\ calls_made'[2].action = "speak_greeting"
          /\ calls_made'[2].call_id = EventId
          /\ threads' = Append(threads, Thread(EventId))
          /\ response' = Ack]_vars

\* an answered event whose record_start failed: the greeting was still
\* issued and the thread started
FailedRecordStartSeen ==
    /\ LastEventWas("call.answered")
    /\ Len(calls_made) = 2
    /\ calls_made[1].action = "record_start"
    /\ calls_made[1].result = None
    /\ calls_made[2].action = "speak_greeting"
    /\ threads # <<>>
    /\ threads[Len(threads)] = Thread(request.payload.call_control_id)

\* The end_call threads started for call_id c
ThreadsOf(c) == {i \in DOMAIN threads : threads[i].call_id = c}

\* C14: at most one end_call thread is ever started for a call_id.
OneThreadPerCall ==
    \A c \in PayloadIds : Cardinality(ThreadsOf(c)) <= 1

\* C17: an answered event for a call_id that is not in active_calls leaves
\* active_calls unchanged, still issues record_start and speak_greeting,
\* starts the end_call thread for that call_id and is acknowledged with 200.
UnknownAnsweredStillActs ==
    [][(Handling("call.answered") /\ EventId \notin DOMAIN active_calls) =>
          /\ active_calls' = active_calls
          /\ Len(calls_made') = 2
          /\ calls_made'[1].action = "record_start"
          /\ calls_made'[2].action = "speak_greeting"
          /\ \A i \in 1..2 : calls_made'[i].call_id = EventId
          /\ threads' = Append(threads, Thread(EventId))
          /\ response' = Ack]_vars

\* an answered event was handled for a call_id never initiated, while
\* another call was in the registry
UnknownAnsweredSeen ==
    /\ LastEventWas("call.answered")
    /\ lifecycle[request.payload.call_control_id] = None
    /\ request.payload.call_control_id \notin DOMAIN active_calls
    /\ active_calls # <<>>
    /\ Len(calls_made) = 2
    /\ threads # <<>>
    /\ response = Ack

\* A step of an end_call thread
ThreadStep ==
    /\ threads' # threads
    /\ nEvents' = nEvents

\* C18: no step of an end_call thread changes active_calls, and a key leaves
\* active_calls only in the step that handles a hangup event for it.
ThreadLeavesRegistryAlone ==
    [][/\ ThreadStep => active_calls' = active_calls
       /\ \A c \in (DOMAIN active_calls) \ (DOMAIN active_calls') :
             Handling("call.hangup") /\ EventId = c]_vars

\* a thread has issued its hangup command and the record of its call is
\* still in the registry
RecordOutlivesThread ==
    \E i \in DOMAIN threads :
        /\ threads[i].pc = "done"
        /\ threads[i].call_id \in DOMAIN active_calls
        /\ Len(calls_made) = 1
        /\ calls_made[1].action = "hangup"

\* Every end_call thread started so far has issued its hangup command
AllThreadsDone == \A i \in DOMAIN threads : threads[i].pc = "done"

\* C13: every started end_call thread eventually finishes, without any
\* further request (a finished thread stays finished, so again and again
\* all the threads started so far are finished); on its way it issues the
\* closing speak command and then the hangup command for its call_id,
\* whatever the result of the speak command and whether or not its call is
\* still in active_calls.
ThreadRunsToCompletion ==
    /\ []<>AllThreadsDone
    /\ [][\A i \in DOMAIN threads :
             threads'[i].pc # threads[i].pc =>
                /\ nEvents' = nEvents
                /\ Len(calls_made') = 1
                /\ calls_made'[1].call_id = threads[i].call_id
                /\ \/ /\ threads[i].pc = "sleep30"
                      /\ threads'[i].pc = "sleep5"
                      /\ calls_made'[1].action = "speak_closing"
                   \/ /\ threads[i].pc = "sleep5"
                      /\ threads'[i].pc = "done"
                      /\ calls_made'[1].action = "hangup"]_vars

\* a thread issued its hangup command after the hangup event of its call
\* had removed the record
ThreadFinishedAfterHangupSeen ==
    \E i \in DOMAIN threads :
        /\ threads[i].pc = "done"
        /\ lifecycle[threads[i].call_id] = "call.hangup"
        /\ threads[i].call_id \notin DOMAIN active_calls
        /\ Len(calls_made) = 1
        /\ calls_made[1].action = "hangup"
        /\ calls_made[1].call_id = threads[i].call_id

\* The commands among the collaborator calls made, without their results
RECURSIVE Commands(_)
Commands(made) ==
    IF made = <<>> THEN <<>>
    ELSE IF Head(made).to = "telnyx"
         THEN <<[action |-> Head(made).action, call_id |-> Head(made).call_id]>>
              \o Commands(Tail(made))
         ELSE Commands(Tail(made))

\* C20: whatever the outcomes of the collaborator calls of a webhook
\* request and whether or not the sheet is configured, the request leaves
\* the registry, issues the commands, starts the threads and gets the
\* response it would with a configured sheet and no failure; so two runs
\* fed the same events agree on all of these after every event.
OutcomesDoNotSteer ==
    [][(nEvents' = nEvents + 1 /\ request'.path = "/webhooks/telnyx") =>
          \E ref \in {handle_telnyx_webhook(active_calls, request', clock',
                                            TRUE, NoFailure)} :
             /\ active_calls' = ref.calls
             /\ Commands(calls_made') = Commands(ref.made)
             /\ threads' = threads \o StartAll(ref.started)
             /\ response' = ref.response]_vars

\* a hangup handled with the sheet not configured, after an answered event
\* whose commands failed
DegradedRunSeen ==
    /\ LastEventWas("call.hangup")
    /\ ~sheets_configured
    /\ Len(calls_made) = 1
    /\ calls_made[1].result = "not_configured"
    /\ request.payload.call_control_id \notin DOMAIN active_calls
    /\ threads # <<>>
    /\ response = Ack

\* Server thread w has finished handling an event of type et
Finished(w, et) ==
    /\ workers[w].pc = "done"
    /\ workers[w].event_type = et

\* C15: whenever two server threads have both finished a hangup event for
\* the same call_id, neither got an exception (both answered 200) and the
\* call_id is no longer a key of active_calls, unless initiated since.
ConcurrentHangupsAcknowledged ==
    \A w1 \in Workers, w2 \in Workers :
        (/\ w1 # w2
         /\ Finished(w1, "call.hangup")
         /\ Finished(w2, "call.hangup")
         /\ workers[w1].call_id = workers[w2].call_id) =>
            /\ workers[w1].response = Ack
            /\ workers[w2].response = Ack

\* C16: a server thread that has finished an answered event answered 200,
\* having issued record_start and speak_greeting, whatever a hangup handler
\* running at the same time did to the key.
ConcurrentAnsweredAcknowledged ==
    \A w \in Workers :
        Finished(w, "call.answered") =>
            /\ workers[w].response = Ack
            /\ Len(workers[w].made) = 2
            /\ workers[w].made[1].action = "record_start"
            /\ workers[w].made[2].action = "speak_greeting"
            /\ \E i \in DOMAIN threads : threads[i].call_id = workers[w].call_id

\* C19: for every call_id, the 'completed' rows logged never outnumber the
\* initiated events handled.
CompletedRowsBoundedByInitiated ==
    \A c \in PayloadIds : tally[c].completed <= tally[c].initiated

====
